---- MODULE Spec2Model ----
(***************************************************************************)
(* A model of src/lib/ipfs/IpfsStorage.ts: the singleton lifecycle of the  *)
(* IPFS storage client (createSingleton, getSingleton, stop) and its       *)
(* read / fetchContent / write operations against a remote IPFS node.      *)
(*                                                                         *)
(* The remote node (IPFS.create, object.stat, cat, pin.add, add, stop) is  *)
(* an external library: every remote call is answered by one of the        *)
(* replies its signature allows, chosen nondeterministically.  An async    *)
(* function runs without interruption up to its next await, so each action *)
(* below is the code between two awaits.                                   *)
(***************************************************************************)
EXTENDS Integers, Sequences, FiniteSets, TLC

\* ------------------------------------------------------------------ bounds

\* Most entries in a document's public-key list, and longest id and key id,
\* in characters.
MaxKeys == 2
MaxIdLen == 2

\* Most next() calls followed on a stream that never ends.
MaxEndlessPulls == 4

\* Longest content, and longest chunk, in bytes.
MaxLen == 2

\* Most next() calls one read issues on its stream: the stream ends (done, or
\* an error) at the latest on call number MaxPulls.
MaxPulls == 2

\* Largest maxSizeInBytes a caller passes, and largest DataSize stat declares.
MaxLimit == MaxLen + 1
MaxDataSize == MaxLen + 1

\* ------------------------------------------------------------------ values

Byte == {"a", "b"}

RECURSIVE SeqsUpTo(_, _)
SeqsUpTo(S, n) ==
  IF n = 0 THEN {<<>>}
  ELSE LET shorter == SeqsUpTo(S, n - 1)
       IN  shorter \cup {Append(s, x) : s \in {t \in shorter : Len(t) = n - 1}, x \in S}

\* Buffers: the contents a caller writes and the chunks a stream delivers.
Contents == SeqsUpTo(Byte, MaxLen)
Chunks == Contents \ {<<>>}

\* JavaScript's undefined, where a remote call resolves to it.
Undefined == [undefined |-> TRUE]

\* The calls the model follows.
CreateCalls == {"c1", "c2", "c3"}
GetCalls == {"g1"}
ReadCalls == {"r1"}
\* The read calls that run concurrently in the specification Concurrent.
AllReads == {"r1", "r2"}
WriteCalls == {"w1"}

\* cid.toString() of added content: a function of the content alone, and
\* injective (content addressing).
Cid(content) == <<"Qm">> \o content

\* An identifier of an object nobody wrote through this client.
ForeignHash == <<"Qm", "dir">>

\* ------------------------------------------------------- replies of the node

\* How a pending remote call ends: it resolves to a value, it rejects, or it
\* does not resolve within the timeout duration.
Resolves(v) == [kind |-> "value", value |-> v]
Rejects == [kind |-> "throw", error |-> "StoreError"]
Hangs == [kind |-> "hang"]

\* TimeoutAsyncCall for a guard that resolves with undefined when the time
\* is up instead of raising.
TimeoutAsyncCall_ResolvesUndefined(reply) ==
  IF reply.kind = "hang" THEN [kind |-> "value", result |-> Undefined]
  ELSE IF reply.kind = "throw" THEN reply
  ELSE [kind |-> "value", result |-> reply.value]

\* AsyncTimeout.timeoutAsyncCall(task, duration): the task's outcome raced
\* against the timer.  A task that beats the timer passes through, wrapped in
\* {result}; if the timer fires first the call fails with a timeout.
TimeoutAsyncCall(reply) ==
  IF reply.kind = "hang" THEN [kind |-> "throw", error |-> "Timeout"]
  ELSE IF reply.kind = "throw" THEN reply
  ELSE [kind |-> "value", result |-> reply.value]

\* node.object.stat(hash): metadata with or without DataSize, or nothing.
StatReplies(h) ==
  {Rejects, Hangs, Resolves(Undefined), Resolves([Hash |-> h])}
    \cup {Resolves([Hash |-> h, DataSize |-> n]) : n \in 0..MaxDataSize}

\* iterator.next() of node.cat(hash): a step with or without a value, done or
\* not; `more` says whether the stream may still answer "not done".
NextReplies(more) ==
  {Rejects, Hangs, Resolves(Undefined), Resolves([done |-> TRUE])}
    \cup {Resolves([done |-> TRUE, value |-> c]) : c \in Chunks}
    \cup (IF more THEN {Resolves([done |-> FALSE, value |-> c]) : c \in Chunks}
                         \cup {Resolves([done |-> FALSE])}
          ELSE {})

\* node.pin.add(hash), awaited without the timeout guard.
PinReplies == {Rejects, Hangs, Resolves(Undefined)}

\* ------------------------------------------------------------------- state

VARIABLES
  \* static IpfsStorage.ipfsStorageSingleton: Undefined or an instance [node]
  ipfsStorageSingleton,
  \* each createSingleton call: where it is, the node it opens, what it returned
  createPc, createNode, createResult,
  \* IPFS.create calls issued so far (each yields a new node handle)
  nodesOpened,
  \* IpfsStorage instances constructed so far
  instancesConstructed,
  \* what the last getSingleton call of each caller produced
  getResult,
  \* node handles released by stop
  stoppedNodes,
  \* the remote node: the blocks added, by identifier, and the pinned identifiers
  blocks, pinned,
  \* each write call: where it is, its content, the identifier it returned
  writePc, writeContent, writeResult,
  \* each read call: where it is, and its arguments
  pc, hash, maxSizeInBytes,
  \* fetchContent's locals, and the FetchResult of fetchContent and read
  bufferChunks, currentContentSize, fetchResult,
  \* the remote calls each read has issued and what the node answered:
  \* the stat reply, the cat calls and whether cat threw, the next() calls and
  \* the replies to them, the identifiers passed to pin.add
  statReply, catCalls, catThrew, pulls, nextReplies, pinCalls,
  \* whether the node has so far answered this read as a responsive node
  \* holding the content answers
  responsive,
  \* DidDocument.getPublicKey: its arguments, whether it has been called, and
  \* what it returned
  didDocument, keyId, lookupPc, lookupResult

lifecycleVars == <<ipfsStorageSingleton, createPc, createNode, createResult,
                   nodesOpened, instancesConstructed, getResult, stoppedNodes>>
storeVars == <<blocks, pinned>>
writeVars == <<writePc, writeContent, writeResult>>
readVars == <<pc, hash, maxSizeInBytes, bufferChunks, currentContentSize,
              fetchResult, statReply, catCalls, catThrew, pulls, nextReplies,
              pinCalls, responsive>>
keyVars == <<didDocument, keyId, lookupPc, lookupResult>>
vars == <<lifecycleVars, storeVars, writeVars, readVars, keyVars>>

\* A value that stands for "nothing yet" in a slot of the model.
None == [kind |-> "none", code |-> "none"]

\* new IpfsStorage(node)
IpfsStorage(node) == [node |-> node]

\* No client activity yet: no write and no read has been called.
ClientIdle ==
  /\ blocks = << >>
  /\ pinned = {}
  /\ writePc = [w \in WriteCalls |-> "idle"]
  /\ writeContent = [w \in WriteCalls |-> <<>>]
  /\ writeResult = [w \in WriteCalls |-> None]
  /\ pc = [r \in AllReads |-> "idle"]
  /\ hash = [r \in AllReads |-> ForeignHash]
  /\ maxSizeInBytes = [r \in AllReads |-> 0]
  /\ bufferChunks = [r \in AllReads |-> <<>>]
  /\ currentContentSize = [r \in AllReads |-> 0]
  /\ fetchResult = [r \in AllReads |-> None]
  /\ statReply = [r \in AllReads |-> None]
  /\ catCalls = [r \in AllReads |-> 0]
  /\ catThrew = [r \in AllReads |-> FALSE]
  /\ pulls = [r \in AllReads |-> 0]
  /\ nextReplies = [r \in AllReads |-> <<>>]
  /\ pinCalls = [r \in AllReads |-> <<>>]
  /\ responsive = [r \in AllReads |-> TRUE]

\* No key lookup in progress: an empty document and an empty key id.
NoLookup ==
  /\ didDocument = [publicKey |-> <<>>]
  /\ keyId = <<>>
  /\ lookupPc = "idle"
  /\ lookupResult = None

\* The static state of the class as loaded: the slot is unset.
StaticUnset ==
  /\ ipfsStorageSingleton = Undefined
  /\ createPc = [c \in CreateCalls |-> "idle"]
  /\ createNode = [c \in CreateCalls |-> 0]
  /\ createResult = [c \in CreateCalls |-> None]
  /\ nodesOpened = 0
  /\ instancesConstructed = 0
  /\ getResult = [g \in GetCalls |-> None]
  /\ stoppedNodes = {}

\* The class as loaded: the static slot is unset and nothing has been called.
InitStatic == StaticUnset /\ ClientIdle /\ NoLookup

\* ------------------------------------------------------ singleton lifecycle

\* SlotIsUnset with the test left out: createSingleton creates whenever called.
SlotIsUnset_NoTest == TRUE

\* createSingleton's test of the static slot.
SlotIsUnset == ipfsStorageSingleton = Undefined

\* createSingleton up to its await: the check of the slot, then IPFS.create.
CreateSingletonCall(c) ==
  /\ createPc[c] = "idle"
  /\ IF SlotIsUnset
     THEN /\ nodesOpened' = nodesOpened + 1
          /\ createNode' = [createNode EXCEPT ![c] = nodesOpened + 1]
          /\ createPc' = [createPc EXCEPT ![c] = "opening"]
     ELSE /\ createPc' = [createPc EXCEPT ![c] = "AlreadyExists"]
          /\ UNCHANGED <<nodesOpened, createNode>>
  /\ UNCHANGED <<ipfsStorageSingleton, createResult, instancesConstructed,
                 getResult, stoppedNodes, storeVars, writeVars, readVars, keyVars>>

\* IPFS.create resolved: construct the instance, store it, return it.
CreateSingletonOpened(c) ==
  /\ createPc[c] = "opening"
  /\ ipfsStorageSingleton' = IpfsStorage(createNode[c])
  /\ instancesConstructed' = instancesConstructed + 1
  /\ createResult' = [createResult EXCEPT ![c] = IpfsStorage(createNode[c])]
  /\ createPc' = [createPc EXCEPT ![c] = "returned"]
  /\ UNCHANGED <<createNode, nodesOpened, getResult, stoppedNodes,
                 storeVars, writeVars, readVars, keyVars>>

\* CreateSingletonOpenFailed for a createSingleton that stores its instance
\* before the node is open and does not take it back when opening fails.
CreateSingletonOpenFailed_KeepsSlot(c) ==
  /\ createPc[c] = "opening"
  /\ createPc' = [createPc EXCEPT ![c] = "raised"]
  /\ ipfsStorageSingleton' = IpfsStorage(createNode[c])
  /\ UNCHANGED <<createNode, createResult, nodesOpened,
                 instancesConstructed, getResult, stoppedNodes,
                 storeVars, writeVars, readVars, keyVars>>

\* IPFS.create rejected: the rejection leaves createSingleton.
CreateSingletonOpenFailed(c) ==
  /\ createPc[c] = "opening"
  /\ createPc' = [createPc EXCEPT ![c] = "raised"]
  /\ UNCHANGED <<ipfsStorageSingleton, createNode, createResult, nodesOpened,
                 instancesConstructed, getResult, stoppedNodes,
                 storeVars, writeVars, readVars, keyVars>>

\* GetSingleton without the test of the slot: it hands out whatever the slot
\* holds, undefined included.
GetSingleton_NoTest(g) ==
  /\ getResult' = [getResult EXCEPT ![g] = ipfsStorageSingleton]
  /\ UNCHANGED <<ipfsStorageSingleton, createPc, createNode, createResult,
                 nodesOpened, instancesConstructed, stoppedNodes,
                 storeVars, writeVars, readVars, keyVars>>

\* getSingleton
GetSingleton(g) ==
  /\ getResult' = [getResult EXCEPT ![g] =
                     IF ipfsStorageSingleton = Undefined
                     THEN [error |-> "NotInitialized"]
                     ELSE ipfsStorageSingleton]
  /\ UNCHANGED <<ipfsStorageSingleton, createPc, createNode, createResult,
                 nodesOpened, instancesConstructed, stoppedNodes,
                 storeVars, writeVars, readVars, keyVars>>

\* The instances some caller holds: those createSingleton or getSingleton returned.
HeldInstances ==
  {createResult[c] : c \in {d \in CreateCalls : createPc[d] = "returned"}}
    \cup {getResult[g] : g \in {k \in GetCalls : "node" \in DOMAIN getResult[k]}}

\* stop on a held instance: node.stop() releases its node.
Stop(instance) ==
  /\ instance \in HeldInstances
  /\ stoppedNodes' = stoppedNodes \cup {instance.node}
  /\ UNCHANGED <<ipfsStorageSingleton, createPc, createNode, createResult,
                 nodesOpened, instancesConstructed, getResult,
                 storeVars, writeVars, readVars, keyVars>>

NextLifecycle ==
  \/ \E c \in CreateCalls : CreateSingletonCall(c)
  \/ \E c \in CreateCalls : CreateSingletonOpened(c)
  \/ \E c \in CreateCalls : CreateSingletonOpenFailed(c)
  \/ \E g \in GetCalls : GetSingleton(g)
  \/ \E n \in 1..Cardinality(CreateCalls) : Stop(IpfsStorage(n))

\* The class from load on: every interleaving of the lifecycle calls.
Lifecycle == InitStatic /\ [][NextLifecycle]_vars

\* --------------------------------------------------------------------- write

\* write up to its await: node.add(content).next() is issued.
WriteCall(w) ==
  /\ ipfsStorageSingleton # Undefined
  /\ writePc[w] = "idle"
  /\ \E content \in Contents :
       writeContent' = [writeContent EXCEPT ![w] = content]
  /\ writePc' = [writePc EXCEPT ![w] = "add"]
  /\ UNCHANGED <<keyVars, lifecycleVars, storeVars, writeResult, readVars>>

\* The add resolved: the node holds the block and write returns its identifier.
WriteReturns(w) ==
  /\ writePc[w] = "add"
  /\ blocks' = (Cid(writeContent[w]) :> writeContent[w]) @@ blocks
  /\ writeResult' = [writeResult EXCEPT ![w] = Cid(writeContent[w])]
  /\ writePc' = [writePc EXCEPT ![w] = "returned"]
  /\ UNCHANGED <<keyVars, lifecycleVars, pinned, writeContent, readVars>>

\* The add rejected: the rejection leaves write.
WriteRaises(w) ==
  /\ writePc[w] = "add"
  /\ writePc' = [writePc EXCEPT ![w] = "raised"]
  /\ UNCHANGED <<keyVars, lifecycleVars, storeVars, writeContent, writeResult, readVars>>

\* ---------------------------------------------------------------------- read

\* Buffer.concat(list)
RECURSIVE Concat(_)
Concat(list) == IF list = <<>> THEN <<>> ELSE Head(list) \o Concat(Tail(list))

\* MetadataProbe with the comparison against the limit left out.
MetadataProbe_NoSizeCheck(reply, limit) ==
  LET guarded == TimeoutAsyncCall(reply) IN
  IF guarded.kind = "throw" THEN "NotFound"
  ELSE LET contentMetadata == guarded.result IN
       IF contentMetadata = Undefined \/ "DataSize" \notin DOMAIN contentMetadata
       THEN "NotFound"
       ELSE "fetch"

\* MetadataProbe with the test for a missing DataSize left out: comparing an
\* undefined DataSize with the limit is false, so the read goes on to fetch.
MetadataProbe_NoDataSizeTest(reply, limit) ==
  LET guarded == TimeoutAsyncCall(reply) IN
  IF guarded.kind = "throw" THEN "NotFound"
  ELSE LET contentMetadata == guarded.result IN
       IF contentMetadata = Undefined
       THEN "NotFound"
       ELSE IF "DataSize" \in DOMAIN contentMetadata /\ contentMetadata.DataSize > limit
            THEN "MaxSizeExceeded"
            ELSE "fetch"

\* MetadataProbe rejecting a declared size equal to the limit (>= for >).
MetadataProbe_RejectsEqual(reply, limit) ==
  LET guarded == TimeoutAsyncCall(reply) IN
  IF guarded.kind = "throw" THEN "NotFound"
  ELSE LET contentMetadata == guarded.result IN
       IF contentMetadata = Undefined \/ "DataSize" \notin DOMAIN contentMetadata
       THEN "NotFound"
       ELSE IF contentMetadata.DataSize >= limit
            THEN "MaxSizeExceeded"
            ELSE "fetch"

\* The metadata probe of read: the guarded stat, then the checks on the
\* metadata.  The code a read returns here, or "fetch" to go on to fetchContent.
MetadataProbe(reply, limit) ==
  LET guarded == TimeoutAsyncCall(reply) IN
  IF guarded.kind = "throw" THEN "NotFound"
  ELSE LET contentMetadata == guarded.result IN
       IF contentMetadata = Undefined \/ "DataSize" \notin DOMAIN contentMetadata
       THEN "NotFound"
       ELSE IF contentMetadata.DataSize > limit
            THEN "MaxSizeExceeded"
            ELSE "fetch"

\* FetchTurn comparing the limit with the size of the chunk alone instead of
\* the running total.
FetchTurn_PerChunkLimit(chunks, size, reply, limit) ==
  LET guarded == TimeoutAsyncCall(reply) IN
  IF guarded.kind = "throw"
  THEN [end |-> "NotAFile", bufferChunks |-> chunks, currentContentSize |-> size]
  ELSE LET result == guarded.result IN
       IF result = Undefined
       THEN [end |-> "NotFound", bufferChunks |-> chunks, currentContentSize |-> size]
       ELSE IF "value" \in DOMAIN result
            THEN LET chunk == result.value
                     total == size + Len(chunk)
                 IN  IF limit < Len(chunk)
                     THEN [end |-> "MaxSizeExceeded", bufferChunks |-> chunks,
                           currentContentSize |-> total]
                     ELSE [end |-> IF result.done THEN "done" ELSE "again",
                           bufferChunks |-> Append(chunks, chunk),
                           currentContentSize |-> total]
            ELSE [end |-> IF result.done THEN "done" ELSE "again",
                  bufferChunks |-> chunks, currentContentSize |-> size]

\* FetchTurn whose catch block does not return: an error of the stream leaves
\* the loop and the chunks accumulated so far become the content.
FetchTurn_ErrorFallsThrough(chunks, size, reply, limit) ==
  LET guarded == TimeoutAsyncCall(reply) IN
  IF guarded.kind = "throw"
  THEN [end |-> "done", bufferChunks |-> chunks, currentContentSize |-> size]
  ELSE LET result == guarded.result IN
       IF result = Undefined
       THEN [end |-> "NotFound", bufferChunks |-> chunks, currentContentSize |-> size]
       ELSE IF "value" \in DOMAIN result
            THEN LET chunk == result.value
                     total == size + Len(chunk)
                 IN  IF limit < total
                     THEN [end |-> "MaxSizeExceeded", bufferChunks |-> chunks,
                           currentContentSize |-> total]
                     ELSE [end |-> IF result.done THEN "done" ELSE "again",
                           bufferChunks |-> Append(chunks, chunk),
                           currentContentSize |-> total]
            ELSE [end |-> IF result.done THEN "done" ELSE "again",
                  bufferChunks |-> chunks, currentContentSize |-> size]

\* FetchTurn leaving the loop on done before it looks at the value: a chunk
\* delivered together with done is dropped.
FetchTurn_DoneDropsValue(chunks, size, reply, limit) ==
  LET guarded == TimeoutAsyncCall(reply) IN
  IF guarded.kind = "throw"
  THEN [end |-> "NotAFile", bufferChunks |-> chunks, currentContentSize |-> size]
  ELSE LET result == guarded.result IN
       IF result = Undefined
       THEN [end |-> "NotFound", bufferChunks |-> chunks, currentContentSize |-> size]
       ELSE IF result.done
            THEN [end |-> "done", bufferChunks |-> chunks, currentContentSize |-> size]
            ELSE IF "value" \in DOMAIN result
                 THEN LET chunk == result.value
                          total == size + Len(chunk)
                      IN  IF limit < total
                          THEN [end |-> "MaxSizeExceeded", bufferChunks |-> chunks,
                                currentContentSize |-> total]
                          ELSE [end |-> "again",
                                bufferChunks |-> Append(chunks, chunk),
                                currentContentSize |-> total]
                 ELSE [end |-> "again", bufferChunks |-> chunks,
                       currentContentSize |-> size]

\* FetchTurn with an overall cap on the fetch: it gives up once two chunks
\* have been accumulated.
FetchTurn_GivesUp(chunks, size, reply, limit) ==
  LET guarded == TimeoutAsyncCall(reply) IN
  IF guarded.kind = "throw"
  THEN [end |-> "NotAFile", bufferChunks |-> chunks, currentContentSize |-> size]
  ELSE LET result == guarded.result IN
       IF result = Undefined \/ Len(chunks) >= 2
       THEN [end |-> "NotFound", bufferChunks |-> chunks, currentContentSize |-> size]
       ELSE IF "value" \in DOMAIN result
            THEN LET chunk == result.value
                     total == size + Len(chunk)
                 IN  IF limit < total
                     THEN [end |-> "MaxSizeExceeded", bufferChunks |-> chunks,
                           currentContentSize |-> total]
                     ELSE [end |-> IF result.done THEN "done" ELSE "again",
                           bufferChunks |-> Append(chunks, chunk),
                           currentContentSize |-> total]
            ELSE [end |-> IF result.done THEN "done" ELSE "again",
                  bufferChunks |-> chunks, currentContentSize |-> size]

\* One turn of fetchContent's do-while on the guarded next(): how the turn
\* ends ("again" for another turn, "done" for leaving the loop, or the code
\* returned from inside it) and the locals after it.
FetchTurn(chunks, size, reply, limit) ==
  LET guarded == TimeoutAsyncCall(reply) IN
  IF guarded.kind = "throw"
  THEN [end |-> "NotAFile", bufferChunks |-> chunks, currentContentSize |-> size]
  ELSE LET result == guarded.result IN
       IF result = Undefined
       THEN [end |-> "NotFound", bufferChunks |-> chunks, currentContentSize |-> size]
       ELSE IF "value" \in DOMAIN result
            THEN LET chunk == result.value
                     total == size + Len(chunk)
                 IN  IF limit < total
                     THEN [end |-> "MaxSizeExceeded", bufferChunks |-> chunks,
                           currentContentSize |-> total]
                     ELSE [end |-> IF result.done THEN "done" ELSE "again",
                           bufferChunks |-> Append(chunks, chunk),
                           currentContentSize |-> total]
            ELSE [end |-> IF result.done THEN "done" ELSE "again",
                  bufferChunks |-> chunks, currentContentSize |-> size]

\* FetchSuccess concatenating the chunks last first.
RECURSIVE Reversed(_)
Reversed(list) ==
  IF list = <<>> THEN <<>> ELSE Append(Reversed(Tail(list)), Head(list))
FetchSuccess_LastFirst(chunks) ==
  [code |-> "Success", content |-> Concat(Reversed(chunks))]

\* fetchContent after the loop: the result with the concatenated content.
FetchSuccess(chunks) == [code |-> "Success", content |-> Concat(chunks)]

\* ShouldPin without the test of the code: read pins whatever the fetch gave.
ShouldPin_Always(result) == TRUE

\* read's test before pinning.
ShouldPin(result) == result.code = "Success"

\* The chunks a sequence of next() replies carried, in order.
RECURSIVE ValuesOf(_)
ValuesOf(replies) ==
  IF replies = <<>> THEN <<>>
  ELSE LET reply == Head(replies) IN
       (IF reply.kind = "value" /\ "value" \in DOMAIN reply.value
        THEN <<reply.value.value>> ELSE <<>>) \o ValuesOf(Tail(replies))

\* The chunks the stream has delivered to a read so far.
Served(r) == ValuesOf(nextReplies[r])

\* What a responsive node that holds the block answers to stat.
FaithfulStat(h, reply) ==
  /\ h \in DOMAIN blocks
  /\ reply = Resolves([Hash |-> h, DataSize |-> Len(blocks[h])])

\* What a responsive node that holds the block answers to next(): the next
\* bytes of the block while some are left, and done at the end of it.
FaithfulNext(h, before, reply) ==
  /\ h \in DOMAIN blocks
  /\ reply.kind = "value"
  /\ reply.value # Undefined
  /\ LET sent == Concat(before)
         left == SubSeq(blocks[h], Len(sent) + 1, Len(blocks[h]))
         step == reply.value
     IN  IF "value" \in DOMAIN step
         THEN /\ Len(step.value) <= Len(left)
              /\ step.value = SubSeq(left, 1, Len(step.value))
              /\ step.done <=> (step.value = left)
         ELSE step.done /\ left = <<>>

\* fetchContent's bufferChunks held in one place shared by all calls (a field
\* of the instance) instead of a local of each call: every call sees the
\* buffer as the call that pushed last left it.
BufferOf_Shared(r) ==
  bufferChunks[CHOOSE q \in AllReads :
                 \A p \in AllReads : Len(bufferChunks[p]) <= Len(bufferChunks[q])]

\* fetchContent's bufferChunks: a local of each call.
BufferOf(r) == bufferChunks[r]

\* The identifiers a caller passes to read: the identifier of content handed
\* to write (already added or still being added), or a foreign one.
KnownHashes ==
  {ForeignHash} \cup {Cid(writeContent[w]) : w \in {v \in WriteCalls : writePc[v] # "idle"}}

\* ReadCall that does not wait for the stat before it opens the stream:
\* node.cat(hash) is called along with node.object.stat(hash).
ReadCall_OpensStreamAtOnce(r) ==
  /\ ipfsStorageSingleton # Undefined
  /\ pc[r] = "idle"
  /\ \E h \in KnownHashes, limit \in 0..MaxLimit :
       /\ hash' = [hash EXCEPT ![r] = h]
       /\ maxSizeInBytes' = [maxSizeInBytes EXCEPT ![r] = limit]
  /\ pc' = [pc EXCEPT ![r] = "stat"]
  /\ catCalls' = [catCalls EXCEPT ![r] = 1]
  /\ UNCHANGED <<keyVars, lifecycleVars, storeVars, writeVars, bufferChunks,
                 currentContentSize, fetchResult, statReply, catThrew,
                 pulls, nextReplies, pinCalls, responsive>>

\* read up to its first await: node.object.stat(hash) is issued.
ReadCall(r) ==
  /\ ipfsStorageSingleton # Undefined
  /\ pc[r] = "idle"
  /\ \E h \in KnownHashes, limit \in 0..MaxLimit :
       /\ hash' = [hash EXCEPT ![r] = h]
       /\ maxSizeInBytes' = [maxSizeInBytes EXCEPT ![r] = limit]
  /\ pc' = [pc EXCEPT ![r] = "stat"]
  /\ UNCHANGED <<keyVars, lifecycleVars, storeVars, writeVars, bufferChunks,
                 currentContentSize, fetchResult, statReply, catCalls, catThrew,
                 pulls, nextReplies, pinCalls, responsive>>

\* The guarded stat ended.  read returns from the probe, or enters
\* fetchContent: node.cat(hash), which throws or yields the iterator whose
\* first next() is issued.
StatEnds(r) ==
  /\ pc[r] = "stat"
  /\ \E reply \in StatReplies(hash[r]), catThrows \in BOOLEAN :
       LET probe == MetadataProbe(reply, maxSizeInBytes[r]) IN
       /\ statReply' = [statReply EXCEPT ![r] = reply]
       /\ IF probe # "fetch"
          THEN /\ ~catThrows
               /\ fetchResult' = [fetchResult EXCEPT ![r] = [code |-> probe]]
               /\ pc' = [pc EXCEPT ![r] = "returned"]
               /\ responsive' = [responsive EXCEPT ![r] = FaithfulStat(hash[r], reply)]
               /\ UNCHANGED <<catCalls, catThrew, pulls>>
          ELSE /\ catCalls' = [catCalls EXCEPT ![r] = @ + 1]
               /\ catThrew' = [catThrew EXCEPT ![r] = catThrows]
               /\ responsive' = [responsive EXCEPT ![r] =
                                   FaithfulStat(hash[r], reply) /\ ~catThrows]
               /\ IF catThrows
                  THEN /\ fetchResult' = [fetchResult EXCEPT ![r] = [code |-> "NotAFile"]]
                       /\ pc' = [pc EXCEPT ![r] = "returned"]
                       /\ UNCHANGED pulls
                  ELSE /\ pc' = [pc EXCEPT ![r] = "next"]
                       /\ pulls' = [pulls EXCEPT ![r] = 1]
                       /\ UNCHANGED fetchResult
  /\ UNCHANGED <<keyVars, lifecycleVars, storeVars, writeVars, hash, maxSizeInBytes,
                 bufferChunks, currentContentSize, nextReplies, pinCalls>>

\* A guarded next() ended, in one of the given ways: one turn of the loop.
\* The loop goes on with the next next(), or fetchContent returns and read
\* either returns its result or, on Success, issues node.pin.add(hash).
NextEndsWith(r, replies) ==
  /\ pc[r] = "next"
  /\ \E reply \in replies :
       LET turn == FetchTurn(BufferOf(r), currentContentSize[r], reply,
                             maxSizeInBytes[r])
           result == IF turn.end = "done" THEN FetchSuccess(turn.bufferChunks)
                     ELSE [code |-> turn.end]
       IN
       /\ bufferChunks' = [bufferChunks EXCEPT ![r] = turn.bufferChunks]
       /\ currentContentSize' = [currentContentSize EXCEPT ![r] = turn.currentContentSize]
       /\ nextReplies' = [nextReplies EXCEPT ![r] = Append(@, reply)]
       /\ responsive' = [responsive EXCEPT ![r] =
                           @ /\ FaithfulNext(hash[r], Served(r), reply)]
       /\ IF turn.end = "again"
          THEN /\ pulls' = [pulls EXCEPT ![r] = @ + 1]
               /\ UNCHANGED <<pc, fetchResult, pinCalls>>
          ELSE /\ fetchResult' = [fetchResult EXCEPT ![r] = result]
               /\ IF ShouldPin(result)
                  THEN /\ pinCalls' = [pinCalls EXCEPT ![r] = Append(@, hash[r])]
                       /\ pc' = [pc EXCEPT ![r] = "pin"]
                  ELSE /\ pc' = [pc EXCEPT ![r] = "returned"]
                       /\ UNCHANGED pinCalls
               /\ UNCHANGED pulls
  /\ UNCHANGED <<keyVars, lifecycleVars, storeVars, writeVars, hash, maxSizeInBytes,
                 statReply, catCalls, catThrew>>

\* A guarded next() of a stream that ends within MaxPulls calls ended.
NextEnds(r) == NextEndsWith(r, NextReplies(pulls[r] < MaxPulls))

\* node.pin.add(hash) ended (it is awaited bare: if it never resolves, read
\* never goes on).  read returns the fetch result, or the rejection leaves read.
PinEnds(r) ==
  /\ pc[r] = "pin"
  /\ \E reply \in PinReplies \ {Hangs} :
       IF reply.kind = "throw"
       THEN /\ pc' = [pc EXCEPT ![r] = "raised"]
            /\ responsive' = [responsive EXCEPT ![r] = FALSE]
            /\ UNCHANGED pinned
       ELSE /\ pc' = [pc EXCEPT ![r] = "returned"]
            /\ pinned' = pinned \cup {hash[r]}
            /\ UNCHANGED responsive
  /\ UNCHANGED <<keyVars, lifecycleVars, blocks, writeVars, hash, maxSizeInBytes,
                 bufferChunks, currentContentSize, fetchResult, statReply,
                 catCalls, catThrew, pulls, nextReplies, pinCalls>>

\* node.pin.add(hash) never resolves.  The await of line 81 has no timer
\* beside it, so nothing ever resumes this read: it stays suspended for good.
PinHangs(r) ==
  /\ pc[r] = "pin"
  /\ Hangs \in PinReplies
  /\ pc' = [pc EXCEPT ![r] = "hung"]
  /\ responsive' = [responsive EXCEPT ![r] = FALSE]
  /\ UNCHANGED <<keyVars, lifecycleVars, storeVars, writeVars, hash, maxSizeInBytes,
                 bufferChunks, currentContentSize, fetchResult, statReply,
                 catCalls, catThrew, pulls, nextReplies, pinCalls>>

\* ------------------------------------------------------------ specifications

\* The client as constructed: one createSingleton call has returned the
\* instance, and no read or write has been called on it yet.
Init ==
  /\ ipfsStorageSingleton = IpfsStorage(1)
  /\ createPc = [c \in CreateCalls |-> IF c = "c1" THEN "returned" ELSE "idle"]
  /\ createNode = [c \in CreateCalls |-> IF c = "c1" THEN 1 ELSE 0]
  /\ createResult = [c \in CreateCalls |-> IF c = "c1" THEN IpfsStorage(1) ELSE None]
  /\ nodesOpened = 1
  /\ instancesConstructed = 1
  /\ getResult = [g \in GetCalls |-> None]
  /\ stoppedNodes = {}
  /\ ClientIdle
  /\ NoLookup

Next ==
  \/ \E w \in WriteCalls : WriteCall(w)
  \/ \E w \in WriteCalls : WriteReturns(w)
  \/ \E w \in WriteCalls : WriteRaises(w)
  \/ \E r \in ReadCalls : ReadCall(r)
  \/ \E r \in ReadCalls : StatEnds(r)
  \/ \E r \in ReadCalls : NextEnds(r)
  \/ \E r \in ReadCalls : PinEnds(r)
  \/ \E r \in ReadCalls : PinHangs(r)

\* The constructed client: every interleaving of its reads and writes with
\* every behaviour of the remote node.
Spec == Init /\ [][Next]_vars

\* The replies of the node in the specification Concurrent: a stat that
\* times out or declares one byte or three, and a stream of one-byte chunks
\* that ends by done or by an error.
ConcurrentStatReplies(h) ==
  {Hangs, Resolves([Hash |-> h, DataSize |-> 1]), Resolves([Hash |-> h, DataSize |-> 3])}
ConcurrentNextReplies ==
  {Rejects, Resolves([done |-> TRUE])}
    \cup {Resolves([done |-> d, value |-> <<b>>]) : d \in BOOLEAN, b \in Byte}

\* Two read calls on the constructed client, concurrently, each with a limit
\* of one byte or two, for the identifier of a block written through the client or
\* for a foreign one.  The write is of the one-byte content "a".
NextConcurrent ==
  \/ \E w \in WriteCalls : WriteCall(w) /\ writeContent'[w] = <<"a">>
  \/ \E w \in WriteCalls : WriteReturns(w)
  \/ \E r \in AllReads : ReadCall(r) /\ maxSizeInBytes'[r] \in {1, 2}
  \/ \E r \in AllReads : StatEnds(r) /\ statReply'[r] \in ConcurrentStatReplies(hash[r])
  \/ \E r \in AllReads :
       NextEnds(r) /\ nextReplies'[r][Len(nextReplies'[r])] \in ConcurrentNextReplies
  \/ \E r \in AllReads : PinEnds(r)

Concurrent == Init /\ [][NextConcurrent]_vars

\* A stream that never ends: every next() resolves before the timeout with a
\* chunk (of any size, zero bytes included) and done = false.
EndlessReplies == {Resolves([done |-> FALSE, value |-> c]) : c \in Contents}

\* A guarded next() of a never-ending stream ended (followed for
\* MaxEndlessPulls calls).
EndlessNextEnds(r) ==
  /\ Len(nextReplies[r]) < MaxEndlessPulls
  /\ NextEndsWith(r, EndlessReplies)

NextEndless ==
  \/ \E r \in ReadCalls : ReadCall(r)
  \/ \E r \in ReadCalls : StatEnds(r)
  \/ \E r \in ReadCalls : EndlessNextEnds(r)

\* A read on the constructed client of an identifier whose stream never ends.
Endless == Init /\ [][NextEndless]_vars

\* ------------------------------------------------- DidDocument.getPublicKey

\* Strings are sequences of characters.
IdChar == {"x", "y"}
Ids == SeqsUpTo(IdChar, MaxIdLen)

\* The entries of a public-key list: with an id (the empty string included)
\* or without one, and of one of two types.
PublicKeyEntries ==
  [id : Ids, type : {"t1", "t2"}] \cup [type : {"t1", "t2"}]

DidDocuments == [publicKey : SeqsUpTo(PublicKeyEntries, MaxKeys)]

\* EndsWith as an exact comparison.
EndsWith_Exact(str, suffix) == str = suffix

\* String.prototype.endsWith
EndsWith(str, suffix) ==
  /\ Len(suffix) <= Len(str)
  /\ SubSeq(str, Len(str) - Len(suffix) + 1, Len(str)) = suffix

\* The test of line 18: `publicKey.id &&` passes for an id that is neither
\* undefined nor the empty string.
IdMatches(publicKey, key) ==
  /\ "id" \in DOMAIN publicKey
  /\ publicKey.id # <<>>
  /\ EndsWith(publicKey.id, key)

\* The loop of getPublicKey from entry i on (entries are numbered from 1).
RECURSIVE GetPublicKeyFrom(_, _, _)
GetPublicKeyFrom(document, key, i) ==
  IF i > Len(document.publicKey) THEN Undefined
  ELSE LET publicKey == document.publicKey[i] IN
       IF IdMatches(publicKey, key) THEN publicKey
       ELSE GetPublicKeyFrom(document, key, i + 1)

GetPublicKey(document, key) == GetPublicKeyFrom(document, key, 1)

\* A call of getPublicKey on the document and key id at hand.
GetPublicKeyCall ==
  /\ lookupPc = "idle"
  /\ lookupResult' = GetPublicKey(didDocument, keyId)
  /\ lookupPc' = "returned"
  /\ UNCHANGED <<didDocument, keyId, lifecycleVars, storeVars, writeVars, readVars>>

\* Any document and any key id, before the call.
InitLookup ==
  /\ StaticUnset
  /\ ClientIdle
  /\ didDocument \in DidDocuments
  /\ keyId \in Ids
  /\ lookupPc = "idle"
  /\ lookupResult = None

NextLookup == GetPublicKeyCall

KeyLookup == InitLookup /\ [][NextLookup]_vars

\* -------------------------------------------------------------------- claims

\* The codes of FetchResultCode a read may return.
FetchResultCodes == {"Success", "NotFound", "MaxSizeExceeded", "NotAFile"}

\* The code of a read's fetch result ("none" while there is none).
CodeOf(r) == fetchResult[r].code

\* The DataSize the stat reply of a read declared, -1 if it declared none.
DeclaredSize(r) ==
  IF statReply[r].kind = "value" /\ "DataSize" \in DOMAIN statReply[r].value
  THEN statReply[r].value.DataSize
  ELSE -1

\* The stat call of a read ended without usable metadata: it failed, timed
\* out, or resolved to nothing or to metadata without DataSize.
StatUnusable(r) ==
  \/ statReply[r] \in {Rejects, Hangs, Resolves(Undefined)}
  \/ statReply[r].kind = "value" /\ statReply[r].value # Undefined
       /\ "DataSize" \notin DOMAIN statReply[r].value

\* The stream of a read raised an error: cat threw, or the last next()
\* rejected.
StreamRaised(r) ==
  \/ catThrew[r]
  \/ nextReplies[r] # <<>>
       /\ nextReplies[r][Len(nextReplies[r])] = Rejects

\* The stream of a read signalled completion in its last reply.
StreamCompleted(r) ==
  /\ nextReplies[r] # <<>>
  /\ LET last == nextReplies[r][Len(nextReplies[r])] IN
     last.kind = "value" /\ last.value # Undefined /\ last.value.done

\* The bytes in a sequence of chunks.
TotalBytes(chunks) == Len(Concat(chunks))

\* C1: read never completes by raising: whatever the remote node does, read
\* returns a FetchResult whose code is Success, NotFound, MaxSizeExceeded or
\* NotAFile, also when the pin after a successful fetch fails.
C1_ReadNeverRaises ==
  \A r \in ReadCalls :
    /\ pc[r] # "raised"
    /\ pc[r] = "returned" => CodeOf(r) \in FetchResultCodes

\* C2: when the stat metadata declares a data size strictly greater than
\* maxSizeInBytes, read returns MaxSizeExceeded and issues no cat call, no
\* chunk pull and no pin.
C2_DeclaredOversizeShortCircuits ==
  \A r \in ReadCalls :
    DeclaredSize(r) > maxSizeInBytes[r] =>
      /\ pc[r] = "returned"
      /\ fetchResult[r] = [code |-> "MaxSizeExceeded"]
      /\ catCalls[r] = 0
      /\ pulls[r] = 0
      /\ nextReplies[r] = <<>>
      /\ pinCalls[r] = <<>>

C2_Witness ==
  \E r \in ReadCalls :
    /\ DeclaredSize(r) > maxSizeInBytes[r]
    /\ pc[r] = "returned"
    /\ hash[r] \in DOMAIN blocks

\* C3: a read issues pin(hash) if and only if its streaming fetch produced
\* Success, then exactly once and for the identifier read; a read that ends
\* in another code issues no pin, and the pinned set holds only identifiers
\* of reads whose fetch produced Success.
C3_PinIffSuccess ==
  /\ \A r \in ReadCalls :
       pinCalls[r] = IF CodeOf(r) = "Success" THEN <<hash[r]>> ELSE <<>>
  /\ pinned \subseteq {hash[r] : r \in {q \in ReadCalls : CodeOf(q) = "Success"}}

C3_Witness ==
  \E r \in ReadCalls :
    /\ pc[r] = "returned"
    /\ CodeOf(r) = "Success"
    /\ pinCalls[r] = <<hash[r]>>
    /\ pinned = {hash[r]}

\* C4: when the stat call fails, times out, or returns no metadata or
\* metadata without a data size, read returns NotFound with no content and
\* invokes neither the stream nor the pin.
C4_StatFailureIsNotFound ==
  \A r \in ReadCalls :
    StatUnusable(r) =>
      /\ pc[r] = "returned"
      /\ fetchResult[r] = [code |-> "NotFound"]
      /\ catCalls[r] = 0
      /\ pulls[r] = 0
      /\ nextReplies[r] = <<>>
      /\ pinCalls[r] = <<>>

C4_Witness ==
  \E r \in ReadCalls :
    /\ statReply[r] = Resolves([Hash |-> hash[r]])
    /\ pc[r] = "returned"
    /\ CodeOf(r) = "NotFound"

\* C5: as soon as the bytes of the chunks received exceed maxSizeInBytes
\* (the declared size having been within the limit), read returns
\* MaxSizeExceeded with no content, pulls no further chunk and does not pin.
C5_StreamedOversizeAborts ==
  \A r \in ReadCalls :
    TotalBytes(Served(r)) > maxSizeInBytes[r] =>
      /\ pc[r] = "returned"
      /\ fetchResult[r] = [code |-> "MaxSizeExceeded"]
      /\ TotalBytes(SubSeq(Served(r), 1, Len(Served(r)) - 1)) <= maxSizeInBytes[r]
      /\ pulls[r] = Len(nextReplies[r])
      /\ pinCalls[r] = <<>>

C5_Witness ==
  \E r \in ReadCalls :
    /\ TotalBytes(Served(r)) > maxSizeInBytes[r]
    /\ DeclaredSize(r) \in 0..maxSizeInBytes[r]
    /\ Len(Served(r)) = 2
    /\ bufferChunks[r] # <<>>
    /\ pc[r] = "returned"

\* C6: when the metadata probe passed and opening the stream or a chunk pull
\* raises, read returns NotAFile with no content and does not pin, whatever
\* number of chunks it had accumulated.
C6_StreamErrorIsNotAFile ==
  \A r \in ReadCalls :
    StreamRaised(r) =>
      /\ pc[r] = "returned"
      /\ fetchResult[r] = [code |-> "NotAFile"]
      /\ pinCalls[r] = <<>>

C6_Witness ==
  \E r \in ReadCalls :
    /\ StreamRaised(r)
    /\ ~catThrew[r]
    /\ bufferChunks[r] # <<>>
    /\ pc[r] = "returned"

\* C7: a FetchResult returned by read has content if and only if its code is
\* Success, and the content is then the complete payload: the stream has
\* signalled completion and the content is every chunk it delivered.
C7_ContentIffSuccess ==
  \A r \in ReadCalls :
    pc[r] = "returned" =>
      /\ "content" \in DOMAIN fetchResult[r] <=> CodeOf(r) = "Success"
      /\ CodeOf(r) = "Success" =>
           /\ StreamCompleted(r)
           /\ fetchResult[r].content = Concat(Served(r))

C7_Witness ==
  \E r \in ReadCalls :
    /\ pc[r] = "returned"
    /\ CodeOf(r) = "Success"
    /\ Len(Served(r)) = 2
    /\ "value" \in DOMAIN nextReplies[r][Len(nextReplies[r])].value

\* C8: round trip at the size boundary: after write(b) returned h, a read of
\* h with maxSizeInBytes = len(b) that a responsive node answers ends with
\* Success and content b; a declared size and a streamed total equal to the
\* limit are accepted.
C8_RoundTripAtBoundary ==
  \A w \in WriteCalls, r \in ReadCalls :
    ( /\ writePc[w] = "returned"
      /\ hash[r] = writeResult[w]
      /\ maxSizeInBytes[r] = Len(writeContent[w])
      /\ responsive[r]
      /\ pc[r] \in {"returned", "raised"} )
    => /\ pc[r] = "returned"
       /\ fetchResult[r] = [code |-> "Success", content |-> writeContent[w]]

C8_Witness ==
  \E w \in WriteCalls, r \in ReadCalls :
    /\ writePc[w] = "returned"
    /\ hash[r] = writeResult[w]
    /\ Len(writeContent[w]) = MaxLen
    /\ maxSizeInBytes[r] = Len(writeContent[w])
    /\ responsive[r]
    /\ pc[r] = "returned"
    /\ DeclaredSize(r) = maxSizeInBytes[r]
    /\ currentContentSize[r] = maxSizeInBytes[r]
    /\ Len(bufferChunks[r]) = 2

\* C9: at most one live client per process: under every interleaving of
\* createSingleton calls at most one call returns a client and at most one
\* instance is ever constructed and stored.
C9_AtMostOneClient ==
  /\ Cardinality({c \in CreateCalls : createPc[c] = "returned"}) <= 1
  /\ instancesConstructed <= 1

\* C10: a createSingleton call that starts after an earlier one has returned
\* an instance fails with AlreadyExists, opens no remote node (in the call
\* and ever after) and leaves the stored singleton unchanged.
C10_SecondCreateFails ==
  /\ [](\A c \in CreateCalls : createPc[c] = "AlreadyExists" => createNode[c] = 0)
  /\ [][\A c \in CreateCalls :
          ( /\ createPc[c] = "idle"
            /\ createPc'[c] # "idle"
            /\ \E d \in CreateCalls : createPc[d] = "returned" )
          => /\ createPc'[c] = "AlreadyExists"
             /\ nodesOpened' = nodesOpened
             /\ ipfsStorageSingleton' = ipfsStorageSingleton]_vars

C10_Witness ==
  \E c, d \in CreateCalls :
    /\ createPc[d] = "returned"
    /\ createPc[c] = "AlreadyExists"
    /\ ipfsStorageSingleton = createResult[d]


\* The error getSingleton raises when the slot is unset.
NotInitialized == [error |-> "NotInitialized"]

\* The instances createSingleton calls have returned so far.
ReturnedInstances ==
  {createResult[c] : c \in {d \in CreateCalls : createPc[d] = "returned"}}

\* C11: getSingleton is read-only: it fails with NotInitialized while no
\* createSingleton call has completed successfully (also while one is opening
\* the node), otherwise it returns the instance in the slot, which a
\* createSingleton call stored and returned; it creates no instance and leaves
\* the slot as it is.
C11_GetSingletonReadOnly ==
  [][\A g \in GetCalls :
       getResult'[g] # getResult[g] =>
         /\ IF ReturnedInstances = {}
            THEN getResult'[g] = NotInitialized
            ELSE getResult'[g] = ipfsStorageSingleton
                   /\ getResult'[g] \in ReturnedInstances
         /\ ipfsStorageSingleton' = ipfsStorageSingleton
         /\ instancesConstructed' = instancesConstructed
         /\ nodesOpened' = nodesOpened
         /\ createPc' = createPc]_vars

C11_Witness ==
  \E g \in GetCalls, c \in CreateCalls :
    /\ createPc[c] = "returned"
    /\ getResult[g] = createResult[c]
    /\ getResult[g] = ipfsStorageSingleton


\* C12: every remote call of read is raced against the timeout, so a read
\* always returns: when the node stops responding at the stat call, at a
\* chunk pull or at the pin call, the timeout of that call ends the wait and
\* no read is left suspended for good.
C12_NoReadSuspendedForGood ==
  \A r \in ReadCalls : pc[r] # "hung"


\* fetchContent's loop run on a sequence of next() replies, one turn after
\* the other, from the given locals: where it stands after the last of them.
RECURSIVE Replay(_, _, _, _)
Replay(chunks, size, replies, limit) ==
  IF replies = <<>>
  THEN [end |-> "again", bufferChunks |-> chunks, currentContentSize |-> size]
  ELSE LET turn == FetchTurn(chunks, size, Head(replies), limit) IN
       IF turn.end = "again"
       THEN Replay(turn.bufferChunks, turn.currentContentSize, Tail(replies), limit)
       ELSE turn

\* What a read run alone gives on the replies the node gave to this read:
\* its fetch result (None while it has none) and its locals.
Alone(r) ==
  LET run == Replay(<<>>, 0, nextReplies[r], maxSizeInBytes[r])
      probe == MetadataProbe(statReply[r], maxSizeInBytes[r])
      result ==
        IF statReply[r] = None THEN None
        ELSE IF probe # "fetch" THEN [code |-> probe]
        ELSE IF catThrew[r] THEN [code |-> "NotAFile"]
        ELSE IF run.end = "again" THEN None
        ELSE IF run.end = "done" THEN FetchSuccess(run.bufferChunks)
        ELSE [code |-> run.end]
  IN  [fetchResult |-> result, bufferChunks |-> run.bufferChunks,
       currentContentSize |-> run.currentContentSize]

\* C13: two concurrent reads, of the same or of different identifiers, are
\* independent: each does its own stat, its own stream and (on Success) its
\* own pin, each has its own chunk buffer and running total, and under every
\* interleaving each ends with the FetchResult it gives when run alone on the
\* replies the node gave it.
C13_ConcurrentReadsIndependent ==
  \A r \in AllReads :
    /\ fetchResult[r] = Alone(r).fetchResult
    /\ bufferChunks[r] = Alone(r).bufferChunks
    /\ currentContentSize[r] = Alone(r).currentContentSize
    /\ catCalls[r] <= 1
    /\ pulls[r] \in {Len(nextReplies[r]), Len(nextReplies[r]) + 1}
    /\ pinCalls[r] = IF CodeOf(r) = "Success" THEN <<hash[r]>> ELSE <<>>

C13_Witness ==
  /\ hash["r1"] = hash["r2"]
  /\ pc["r1"] = "returned"
  /\ CodeOf("r1") = "Success"
  /\ Len(bufferChunks["r1"]) = 2
  /\ pc["r2"] = "next"
  /\ Len(bufferChunks["r2"]) = 1
  /\ bufferChunks["r2"][1] # bufferChunks["r1"][1]


\* key is a suffix of id: id is some string followed by key.
IsSuffix(key, id) == \E front \in Ids : id = front \o key

\* The first entry of the list among those at the given positions, or
\* undefined if there is none.
FirstAt(positions) ==
  IF positions = {} THEN Undefined
  ELSE didDocument.publicKey[CHOOSE i \in positions : \A j \in positions : i <= j]

\* C14 as stated: getPublicKey returns the first entry, in list order, whose
\* id ends with keyId, and undefined exactly when no entry's id ends with
\* keyId.
C14_FirstSuffixMatch ==
  lookupPc = "returned" =>
    lookupResult =
      FirstAt({i \in 1..Len(didDocument.publicKey) :
                 /\ "id" \in DOMAIN didDocument.publicKey[i]
                 /\ IsSuffix(keyId, didDocument.publicKey[i].id)})

\* C14 as amended: getPublicKey returns the first entry, in list order, whose
\* id is not empty and ends with keyId (suffix match, not exact match), and
\* undefined exactly when there is no such entry; it leaves the document as
\* it is.
C14_FirstNonEmptySuffixMatch ==
  /\ [](lookupPc = "returned" =>
          lookupResult =
            FirstAt({i \in 1..Len(didDocument.publicKey) :
                       /\ "id" \in DOMAIN didDocument.publicKey[i]
                       /\ didDocument.publicKey[i].id # <<>>
                       /\ IsSuffix(keyId, didDocument.publicKey[i].id)}))
  /\ [][didDocument' = didDocument]_vars

C14_Witness ==
  /\ lookupPc = "returned"
  /\ Len(didDocument.publicKey) = 2
  /\ keyId # <<>>
  /\ \A i \in 1..2 :
       /\ "id" \in DOMAIN didDocument.publicKey[i]
       /\ IsSuffix(keyId, didDocument.publicKey[i].id)
       /\ didDocument.publicKey[i].id # keyId
  /\ didDocument.publicKey[1] # didDocument.publicKey[2]
  /\ lookupResult = didDocument.publicKey[1]


\* The stream of a read completed normally: every reply was a step of the
\* stream, and the last one signalled completion.
CompletedNormally(r) ==
  /\ StreamCompleted(r)
  /\ \A i \in 1..Len(nextReplies[r]) :
       nextReplies[r][i].kind = "value" /\ nextReplies[r][i].value # Undefined

\* C15: when the stream completes normally within the size bound, read's
\* content is the concatenation of exactly the chunks received, each once and
\* in the order received (a chunk delivered together with done included, and
\* the empty content for a stream that delivered no chunk).
C15_ContentIsChunksInOrder ==
  \A r \in ReadCalls :
    (CompletedNormally(r) /\ TotalBytes(Served(r)) <= maxSizeInBytes[r]) =>
      /\ bufferChunks[r] = Served(r)
      /\ currentContentSize[r] = TotalBytes(Served(r))
      /\ fetchResult[r] = [code |-> "Success", content |-> Concat(Served(r))]

C15_Witness ==
  \E r \in ReadCalls :
    /\ pc[r] = "returned"
    /\ nextReplies[r] = << Resolves([done |-> FALSE, value |-> <<"a">>]),
                           Resolves([done |-> TRUE, value |-> <<"b">>]) >>
    /\ fetchResult[r] = [code |-> "Success", content |-> <<"a", "b">>]


\* C16: within one read the stages are strictly ordered: the stream is
\* opened only after the stat call has resolved, a chunk pull is issued only
\* after the one before it has resolved, and the pin call is issued only
\* after the stream has completed.
C16_StagesInOrder ==
  \A r \in ReadCalls :
    /\ catCalls[r] > 0 => statReply[r].kind = "value" /\ pc[r] # "stat"
    /\ pulls[r] > 0 => catCalls[r] = 1 /\ ~catThrew[r]
    /\ pulls[r] \in {Len(nextReplies[r]), Len(nextReplies[r]) + 1}
    /\ pulls[r] = Len(nextReplies[r]) + 1 <=> pc[r] = "next"
    /\ pinCalls[r] # <<>> =>
         /\ StreamCompleted(r)
         /\ pulls[r] = Len(nextReplies[r])
         /\ pc[r] \notin {"stat", "next"}

C16_Witness ==
  \E r \in ReadCalls :
    /\ pc[r] = "pin"
    /\ statReply[r].kind = "value"
    /\ catCalls[r] = 1
    /\ pulls[r] = 2
    /\ Len(nextReplies[r]) = 2
    /\ pinCalls[r] = <<hash[r]>>


\* C17 as stated: on a never-ending stream each of whose pulls delivers a
\* chunk before the timeout, the read trips neither limit: it never returns.
C17_EndlessReadNeverReturns ==
  \A r \in ReadCalls : pulls[r] > 0 => pc[r] # "returned"

\* C17 as amended: there is no end-to-end deadline, only the size limit: on a
\* never-ending stream the read is still pulling, whatever the number of
\* pulls so far, as long as the bytes received are within maxSizeInBytes, and
\* it has returned MaxSizeExceeded once they exceed it.
C17_EndlessReadEndsOnlyBySize ==
  \A r \in ReadCalls :
    pulls[r] > 0 =>
      IF TotalBytes(Served(r)) <= maxSizeInBytes[r]
      THEN pc[r] = "next" /\ pulls[r] = Len(nextReplies[r]) + 1
      ELSE pc[r] = "returned" /\ fetchResult[r] = [code |-> "MaxSizeExceeded"]

C17_Witness ==
  \E r \in ReadCalls :
    /\ pc[r] = "next"
    /\ Len(nextReplies[r]) = MaxEndlessPulls
    /\ pulls[r] = MaxEndlessPulls + 1
    /\ TotalBytes(Served(r)) \in 1..maxSizeInBytes[r]


\* C18: the singleton slot is never cleared once set: stop and every other
\* operation leave it holding the instance the successful createSingleton
\* stored, so getSingleton goes on returning that same instance and
\* createSingleton goes on failing with AlreadyExists.
C18_SlotKeepsItsInstance ==
  [][ipfsStorageSingleton # Undefined =>
       ipfsStorageSingleton' = ipfsStorageSingleton]_vars

\* C19: when opening the remote node fails inside createSingleton the
\* failure is raised and the slot is left as it was: while no call has
\* succeeded the slot is unset, getSingleton fails with NotInitialized and a
\* createSingleton call is not rejected with AlreadyExists but opens a node.
C19_FailedOpenLeavesSlotUnset ==
  /\ [](ReturnedInstances = {} => ipfsStorageSingleton = Undefined)
  /\ [][\A c \in CreateCalls :
          (createPc[c] = "opening" /\ createPc'[c] = "raised") =>
            /\ ipfsStorageSingleton' = ipfsStorageSingleton
            /\ instancesConstructed' = instancesConstructed
            /\ createResult'[c] = None]_vars
  /\ [][\A c \in CreateCalls :
          ( /\ ReturnedInstances = {}
            /\ \E d \in CreateCalls : createPc[d] = "raised"
            /\ createPc[c] = "idle"
            /\ createPc'[c] # "idle" )
          => createPc'[c] = "opening" /\ nodesOpened' = nodesOpened + 1]_vars
  /\ [][\A g \in GetCalls :
          ( /\ ReturnedInstances = {}
            /\ \E d \in CreateCalls : createPc[d] = "raised"
            /\ getResult'[g] # getResult[g] )
          => getResult'[g] = NotInitialized]_vars

C19_Witness ==
  \E c, d \in CreateCalls, g \in GetCalls :
    /\ createPc[c] = "raised"
    /\ createPc[d] = "returned"
    /\ createNode[d] > createNode[c]
    /\ ipfsStorageSingleton = createResult[d]
    /\ \A e \in CreateCalls \ {c, d} : createPc[e] = "idle"
    /\ getResult[g] = NotInitialized


\* C20: a stat call that does not answer within the timeout makes read
\* return NotFound, a chunk pull that does not answer within the timeout
\* makes it return NotAFile whatever it had accumulated, and in both cases
\* nothing is pinned.
C20_TimeoutOutcomes ==
  \A r \in ReadCalls :
    /\ statReply[r] = Hangs =>
         /\ pc[r] = "returned"
         /\ fetchResult[r] = [code |-> "NotFound"]
         /\ pinCalls[r] = <<>>
    /\ (nextReplies[r] # <<>> /\ nextReplies[r][Len(nextReplies[r])] = Hangs) =>
         /\ pc[r] = "returned"
         /\ fetchResult[r] = [code |-> "NotAFile"]
         /\ pinCalls[r] = <<>>

C20_Witness ==
  \E r \in ReadCalls :
    /\ Len(nextReplies[r]) = 2
    /\ nextReplies[r][2] = Hangs
    /\ bufferChunks[r] # <<>>
    /\ pc[r] = "returned"
    /\ CodeOf(r) = "NotAFile"

====
